---- MODULE Spec2Model ----
(***************************************************************************)
(* pglock: exclusive / shared lease locks kept in one PostgreSQL row per   *)
(* lock name.  The model follows lockClient.TryXLock, TrySLock and Unlock  *)
(* statement by statement for one lock name.  Every holder is a caller     *)
(* that issues its calls one after the other; calls of different holders   *)
(* interleave at the points where the code can be overtaken by another     *)
(* transaction: between the INSERT ... ON CONFLICT DO NOTHING, before     *)
(* which time.Now() was sampled, and the SELECT ... FOR UPDATE.  From the  *)
(* SELECT ... FOR UPDATE to the COMMIT/ROLLBACK the row lock makes the     *)
(* handler one atomic step.  Time is a discrete clock shared by all        *)
(* callers.                                                                *)
(***************************************************************************)
EXTENDS Integers, Sequences, FiniteSets, TLC

\* ---------------------------------------------------------------- bounds
MaxTime == 2
MaxTTL == 2
\* The MaxSharedLocks value every TrySLock passes in SpecSameK.
SameK == 1

Holders == {"a", "b"}
TTLs == 0 .. MaxTTL
\* MaxSharedLocks as passed by callers: unlimited, none, one of the two holders.
Caps == {-1, 0, 1}

\* ------------------------------------------------- values of the Go types
\* The zero time.Time carried by a result built without ExpiresAt.
ZeroTime == -1

\* sql.NullString / sql.NullTime: Valid is false for SQL NULL.
NullString == [Valid |-> FALSE, String |-> ""]
NullTime == [Valid |-> FALSE, Time |-> 0]
SomeString(s) == [Valid |-> TRUE, String |-> s]
SomeTime(t) == [Valid |-> TRUE, Time |-> t]

\* SharedLockEntry{LockID, ExpiresAt} with its JSON field names.
SharedLockEntry(id, t) == [lock_id |-> id, expires_at |-> t]

VARIABLES
    now,              \* the clock read by time.Now(), in units of the store's
                      \* timestamp resolution
    nanos,            \* the part of the clock reading below that resolution
    exists,           \* whether the row of the lock name is in the table
    xlock_id,         \* column xlock_id        (sql.NullString)
    x_expires_at,     \* column x_expires_at    (sql.NullTime)
    shared_locks,     \* column shared_locks    (sequence of SharedLockEntry)
    max_shared_locks, \* column max_shared_locks
    unparseable,      \* shared_locks holds JSON that is no []SharedLockEntry
    pc,               \* per holder: where its current call stands
    params,           \* per holder: the locals of its current call
    last,             \* the call that completed in the last step, if any
    xgrant,           \* per holder: its exclusive acquisition not yet unlocked
    sgrant,           \* per claimant: its shared acquisition not yet unlocked
    blocking,         \* per holder: its XLock / SLock call, if it made one
    client            \* per holder: its lockClient (the handle c.db, Initialize)

vars == <<now, nanos, exists, xlock_id, x_expires_at, shared_locks, max_shared_locks,
          unparseable, pc, params, last, xgrant, sgrant, blocking, client>>

rowVars == <<exists, xlock_id, x_expires_at, shared_locks, max_shared_locks,
             unparseable>>

\* The row as one value, for before/after comparisons.
Row == [exists |-> exists, xlock_id |-> xlock_id, x_expires_at |-> x_expires_at,
        shared_locks |-> shared_locks, max_shared_locks |-> max_shared_locks,
        unparseable |-> unparseable]

\* ------------------------------------------------------ pure code pieces
\* Mutant: an expiry equal to the current time still counts as not expired.
After_NonStrict(t, u) == t >= u

\* time.Time.After
After(t, u) == t > u

\* Mutant: the comparison of the exclusive expiry with the clock is reversed.
XLockHeld_Reversed(xid, xexp, t) == xid.Valid /\ xexp.Valid /\ xexp.Time < t

\* TryXLock step 3 / TrySLock step 3: a valid exclusive holder exists.
XLockHeld(xid, xexp, t) == xid.Valid /\ xexp.Valid /\ After(xexp.Time, t)

\* Mutant: only the first shared entry is examined.
AnyValidSLock_FirstOnly(sl, t) == Len(sl) > 0 /\ sl[1].expires_at > t

\* TryXLock step 4: some shared entry has not expired.
AnyValidSLock(sl, t) == \E i \in 1 .. Len(sl) : After(sl[i].expires_at, t)

\* Mutant: the filter keeps the expired entries.
ValidLocks_KeepsAll(sl, t) == sl

\* TrySLock step 4: the entries that have not expired, in stored order.
ValidEntry(e, t) == After(e.expires_at, t)
ValidLocks(sl, t) == SelectSeq(sl, LAMBDA e : ValidEntry(e, t))

\* TrySLock step 4: the caller has an entry that has not expired.
AlreadyHasLock(sl, t, id) ==
    \E i \in 1 .. Len(sl) : After(sl[i].expires_at, t) /\ sl[i].lock_id = id

\* Mutant: the capacity test refuses one claimant too early.
AtCapacity_OffByOne(maxLocks, validLocks) ==
    maxLocks # -1 /\ Len(validLocks) + 1 >= maxLocks

\* TrySLock step 5: the capacity test applied to a new claimant.
AtCapacity(maxLocks, validLocks) ==
    maxLocks # -1 /\ Len(validLocks) >= maxLocks

\* Mutant: a renewal appends a second entry instead of updating in place.
RenewLock_Appends(validLocks, id, newExpiresAt) ==
    Append(validLocks, [lock_id |-> id, expires_at |-> newExpiresAt])

\* TrySLock step 6, renewal: the first entry of the caller gets the new expiry.
FirstOf(validLocks, id) ==
    CHOOSE i \in 1 .. Len(validLocks) :
        /\ validLocks[i].lock_id = id
        /\ \A j \in 1 .. i - 1 : validLocks[j].lock_id # id
RenewLock(validLocks, id, newExpiresAt) ==
    [validLocks EXCEPT ![FirstOf(validLocks, id)].expires_at = newExpiresAt]

\* Mutant: a new claim is stored alone, in place of the set that was read.
AddLock_Overwrites(validLocks, id, newExpiresAt) ==
    << [lock_id |-> id, expires_at |-> newExpiresAt] >>

\* TrySLock step 6, new claim: the entry is appended.
AddLock(validLocks, id, newExpiresAt) ==
    Append(validLocks, SharedLockEntry(id, newExpiresAt))

\* Mutant: Unlock treats a missing row as a release.
NoRowReleased_True == TRUE

\* Unlock, sql.ErrNoRows: UnlockResult{Released: false}.
NoRowReleased == FALSE

\* Mutant: a refused call runs its check again instead of returning.
AfterCheck_RetriesRefused(acquired, at) == IF acquired THEN "idle" ELSE at

\* TryXLock / TrySLock after the check under the row lock: every branch is
\* a return; there is no loop in the function.
AfterCheck(acquired, at) == "idle"

\* Mutant: a refused TrySLock stores the filtered set it holds in memory.
RolledBack_Applies(stored, inMemory) == inMemory

\* transaction.Rollback() before `return TrySLockResult{Acquired: false}`:
\* the stored value stays, whatever the call built in memory.
RolledBack(stored, inMemory) == stored

\* Mutant: an exclusive acquisition also empties the shared set, whose entries
\* it has just found expired.
NotInSetClause_Emptied(shared) == << >>

\* TryXLock's UPDATE is `SET xlock_id = $1, x_expires_at = $2`: shared_locks
\* is not in the SET clause and keeps the stored value.
NotInSetClause(shared) == shared

\* Mutant: Unlock deletes the row it has read.
UnlockKeepsRow_Deletes == FALSE

\* Unlock writes with UPDATE only: the row it has read stays in the table.
UnlockKeepsRow == TRUE

\* Mutant: Unlock clears the exclusive columns whoever holds them.
IsXHolder_AnyHolder(xid, id) == xid.Valid

\* Unlock step 2: the caller is the recorded exclusive holder.
IsXHolder(xid, id) == xid.Valid /\ xid.String = id

\* Mutant: the comparison of Unlock's filter is inverted.
RemoveLocks_Inverted(sl, id) == SelectSeq(sl, LAMBDA e : e.lock_id = id)

\* Mutant: the entries Unlock keeps are written back in reverse order.
RemoveLocks_Reorders(sl, id) ==
    LET kept == SelectSeq(sl, LAMBDA e : e.lock_id # id)
    IN  [i \in 1 .. Len(kept) |-> kept[Len(kept) + 1 - i]]

\* Unlock step 3: the entries of other holders, in stored order.
RemoveLocks(sl, id) == SelectSeq(sl, LAMBDA e : e.lock_id # id)

\* A time.Time passed as x_expires_at: lib/pq sends it with its nanoseconds
\* and the TIMESTAMPTZ column keeps microseconds, rounding to the nearest.
\* t counts whole microseconds, n is the rest in nanoseconds.
Timestamptz(t, n) == IF n >= 500 THEN t + 1 ELSE t

\* Mutant: the lease ends when it is taken.
ExpiresAt_IgnoresTTL(t, ttl) == t

\* now + TTLSeconds
ExpiresAt(t, ttl) == t + ttl

\* DefaultRetryInterval = 100 * time.Millisecond, in milliseconds.
DefaultRetryInterval == 100

\* Mutant: the interval is used as passed.
RetryInterval_AsPassed(d) == d

\* XLock / SLock entry: `if params.IntervalDuration <= 0` the default is
\* taken.
RetryInterval(d) == IF d <= 0 THEN DefaultRetryInterval ELSE d

\* Mutant: a cancelled context wins over the result of the attempt.
AfterAttempt_CtxFirst(failed, acquired, ctxDone) ==
    IF ctxDone THEN "cancelled"
    ELSE IF failed THEN "error" ELSE IF acquired THEN "ok" ELSE "wait"

\* Mutant: an attempt that failed in the store is retried like a refusal.
AfterAttempt_RetriesError(failed, acquired, ctxDone) ==
    IF ~failed /\ acquired THEN "ok" ELSE "wait"

\* Mutant: the first attempt's result is returned whatever it is.
AfterAttempt_GivesUp(failed, acquired, ctxDone) ==
    IF failed THEN "error" ELSE "ok"

\* XLock / SLock after an attempt: `if err != nil { return }`,
\* `if result.Acquired { return }`, otherwise on to the select.  The
\* context is not looked at here.
AfterAttempt(failed, acquired, ctxDone) ==
    IF failed THEN "error" ELSE IF acquired THEN "ok" ELSE "wait"

\* Mutant: the wait never ends in another attempt.
AfterWait_NeverRetries(ctxDone) == "cancelled"

\* XLock / SLock select: ctx.Done() returns ctx.Err(), time.After retries.
AfterWait(ctxDone) == IF ctxDone THEN "cancelled" ELSE "try"

\* ------------------------------------------------------------ the results
\* What the completed call l handed over, seen at the same clock reading t:
\* "exclusive" when it was an Unlock by the valid exclusive holder,
\* "shared" when it was an Unlock by the only valid shared holder.
NoHandover == [kind |-> "none", id |-> ""]
Handover(l, t) ==
    IF l.op = "Unlock" /\ l.Released
    THEN IF /\ l.pre.xlock_id.Valid /\ l.pre.xlock_id.String = l.id
            /\ l.pre.x_expires_at.Valid /\ l.pre.x_expires_at.Time > t
         THEN [kind |-> "exclusive", id |-> l.id]
         ELSE IF {l.pre.shared_locks[i].lock_id :
                     i \in {j \in 1 .. Len(l.pre.shared_locks) :
                                l.pre.shared_locks[j].expires_at > t}} = {l.id}
              THEN [kind |-> "shared", id |-> l.id]
              ELSE NoHandover
    ELSE NoHandover

\* The handover a call finds: that of the call completed last, carried over
\* the steps that only start a call.
Carry(l, t) == IF l.op = "none" THEN l.after ELSE Handover(l, t)

\* The call that completed in a step: its result, the row it read, and what
\* the call completed last before it (no clock tick in between) handed over.
\* nanos is the part of the returned ExpiresAt below the store's resolution:
\* that of the time.Now() it was computed from, TTLSeconds being whole
\* seconds.
Completed(op, id, acquired, released, expiresAt, created) ==
    [op |-> op, id |-> id, Acquired |-> acquired, Released |-> released,
     ExpiresAt |-> expiresAt, created |-> created, err |-> FALSE, pre |-> Row,
     nanos |-> IF acquired THEN nanos ELSE 0,
     after |-> Carry(last, now)]
\* The call returned the zero result and an error.
Failed(op, id) ==
    [Completed(op, id, FALSE, FALSE, ZeroTime, FALSE) EXCEPT !.err = TRUE]
NoCall ==
    [op |-> "none", id |-> "", Acquired |-> FALSE, Released |-> FALSE,
     ExpiresAt |-> ZeroTime, created |-> FALSE, err |-> FALSE, after |-> NoHandover,
     nanos |-> 0,
     pre |-> [exists |-> FALSE, xlock_id |-> NullString, x_expires_at |-> NullTime,
              shared_locks |-> << >>, max_shared_locks |-> -1,
              unparseable |-> FALSE]]
\* No call completed in this step: only the handover is kept.
Pending(l, t) == [NoCall EXCEPT !.after = Carry(l, t)]
Idle == [ttl |-> 0, exp |-> 0]

\* An XLock / SLock call of a holder: its parameters, where its loop stands
\* (at), whether its context is done, what it returned (result, ExpiresAt),
\* whether one of its attempts changed the row (wrote) or returned an error
\* (failed), whether it went through the wait (retried), what the Unlock
\* following it returned, the IntervalDuration it was passed and the one it
\* uses, and how long its last completed wait was (waited, 0 if none).
NoBlocking ==
    [op |-> "none", at |-> "idle", ttl |-> 0, k |-> -1, ctxDone |-> FALSE,
     result |-> "none", ExpiresAt |-> ZeroTime, wrote |-> FALSE,
     failed |-> FALSE, retried |-> FALSE, unlock |-> "none",
     passed |-> 0, IntervalDuration |-> 0, waited |-> 0]
\* d is the IntervalDuration the caller passed, in milliseconds.
Called(op, ttl, k, d) ==
    [NoBlocking EXCEPT !.op = op, !.at = "try", !.ttl = ttl, !.k = k,
                       !.passed = d, !.IntervalDuration = RetryInterval(d)]
\* Mutant: the blocking call returns the zero XLockResult / SLockResult.
Returned_DropsExpiry(b, o, expiresAt) ==
    [b EXCEPT !.at = "returned", !.result = o, !.ExpiresAt = ZeroTime,
              !.ttl = 0, !.k = -1, !.ctxDone = FALSE]
\* The call returned o: its parameters and its context are gone.
Returned(b, o, expiresAt) ==
    [b EXCEPT !.at = "returned", !.result = o, !.ExpiresAt = expiresAt,
              !.ttl = 0, !.k = -1, !.ctxDone = FALSE]
\* The call record after an attempt returned (failed: with an error).
Attempted(b, failed, acquired, expiresAt, wroteNow) ==
    LET o == AfterAttempt(failed, acquired, b.ctxDone)
        c == [b EXCEPT !.wrote = b.wrote \/ wroteNow, !.failed = b.failed \/ failed]
    IN  IF o = "wait" THEN [c EXCEPT !.at = "wait"]
        ELSE Returned(c, o, IF o = "ok" THEN expiresAt ELSE ZeroTime)
\* The call record after the select of the wait.
Waited(b) ==
    LET o == AfterWait(b.ctxDone)
    IN  IF o = "try" THEN [b EXCEPT !.at = "try", !.retried = TRUE,
                                    !.waited = b.IntervalDuration]
                     ELSE Returned(b, o, ZeroTime)

\* The exclusive acquisitions returned with acquired=true that are neither
\* expired at time t nor released by Unlock.
Granted(g, h, expiresAt, t) ==
    IF expiresAt > t THEN [g EXCEPT ![h] = SomeTime(expiresAt)]
                     ELSE [g EXCEPT ![h] = NullTime]
Live(g, t) == [h \in Holders |-> IF g[h].Valid /\ g[h].Time > t THEN g[h] ELSE NullTime]

\* The same for shared acquisitions: the lease of the latest TrySLock of a
\* claimant that returned acquired=true, while it is not expired, the
\* claimant has not called Unlock and the column has not been corrupted.
SGranted(g, id, expiresAt, t) ==
    [g EXCEPT ![id] = IF expiresAt > t THEN SomeTime(expiresAt) ELSE NullTime]
SLive(g, t) ==
    [id \in DOMAIN g |-> IF g[id].Valid /\ g[id].Time > t THEN g[id] ELSE NullTime]
\* The claimants besides the two holders.
Others == {"c"}
NoSGrant == [id \in Holders \cup Others |-> NullTime]

\* ------------------------------------------------------------------ Init
\* The table exists and is empty (createLockTable); no call is in progress.
\* ---------------------------------------------------------- lockClient
\* A client: where its Initialize() stands, the state of the handle stored in
\* c.db ("nil" before connect), and the error Initialize returned.
NewClient == [at |-> "new", db |-> "nil", err |-> FALSE]

\* A client whose handle is open and whose table exists: what every locking
\* operation needs, since each starts with c.db.BeginTx.
ReadyClient == [at |-> "returned", db |-> "open", err |-> FALSE]

\* connect() registers defer db.Close() right after sql.Open succeeded: when
\* connect returns, the handle it has just stored in c.db is closed.
DeferredClose(db) == "closed"

\* c.db.ExecContext / c.db.BeginTx work on an open handle only; on a closed
\* one database/sql answers "sql: database is closed".
Usable(db) == db = "open"

\* The store before any call: no row, nobody in a call.
EmptyStore ==
    /\ now = 0
    /\ nanos = 0
    /\ exists = FALSE
    /\ xlock_id = NullString
    /\ x_expires_at = NullTime
    /\ shared_locks = << >>
    /\ max_shared_locks = -1
    /\ unparseable = FALSE
    /\ pc = [h \in Holders |-> "idle"]
    /\ params = [h \in Holders |-> Idle]
    /\ last = NoCall
    /\ xgrant = [h \in Holders |-> NullTime]
    /\ sgrant = NoSGrant
    /\ blocking = [h \in Holders |-> NoBlocking]

\* The locking operations are studied on clients that are ready.
Init ==
    /\ client = [h \in Holders |-> ReadyClient]
    /\ EmptyStore

\* ------------------------------------------------------------- TryXLock
\* BeginTx, xExpiresAtFromParams := time.Now() + TTLSeconds, and step 1:
\* INSERT ... ON CONFLICT (name) DO NOTHING.  If the row was inserted the
\* call commits and returns acquired; otherwise it goes on to the SELECT.
TryXLockInsert(h, ttl) ==
    /\ pc[h] = "idle"
    /\ Usable(client[h].db)
    /\ LET xExpiresAtFromParams == ExpiresAt(now, ttl)
       IN  IF ~exists
           THEN /\ exists' = TRUE
                /\ xlock_id' = SomeString(h)
                /\ x_expires_at' = SomeTime(Timestamptz(xExpiresAtFromParams, nanos))
                /\ shared_locks' = << >>
                /\ max_shared_locks' = -1
                /\ unparseable' = FALSE
                /\ last' = Completed("TryXLock", h, TRUE, FALSE, xExpiresAtFromParams, TRUE)
                /\ xgrant' = Granted(xgrant, h, xExpiresAtFromParams, now)
                /\ UNCHANGED sgrant
                /\ UNCHANGED <<pc, params>>
           ELSE /\ pc' = [pc EXCEPT ![h] = "x_select"]
                /\ params' = [params EXCEPT ![h] = [ttl |-> ttl, exp |-> 0]]
                /\ last' = Pending(last, now)
                /\ UNCHANGED <<rowVars, xgrant, sgrant>>
    /\ UNCHANGED <<now, nanos>>

\* Steps 2-5 under the row lock: SELECT ... FOR UPDATE, the exclusive check,
\* json.Unmarshal of shared_locks (an error if it fails), the shared check,
\* the UPDATE of xlock_id and x_expires_at, COMMIT.
TryXLockUpdate(h) ==
    /\ pc[h] = "x_select"
    /\ LET newExpiresAt == ExpiresAt(now, params[h].ttl)
           xheld == XLockHeld(xlock_id, x_expires_at, now)
       IN  IF xheld
           THEN /\ last' = Completed("TryXLock", h, FALSE, FALSE, ZeroTime, FALSE)
                /\ UNCHANGED <<xlock_id, x_expires_at, shared_locks, xgrant, sgrant>>
           ELSE IF unparseable
           THEN /\ last' = Failed("TryXLock", h)
                /\ UNCHANGED <<xlock_id, x_expires_at, shared_locks, xgrant, sgrant>>
           ELSE IF AnyValidSLock(shared_locks, now)
           THEN /\ last' = Completed("TryXLock", h, FALSE, FALSE, ZeroTime, FALSE)
                /\ UNCHANGED <<xlock_id, x_expires_at, shared_locks, xgrant, sgrant>>
           ELSE /\ xlock_id' = SomeString(h)
                /\ x_expires_at' = SomeTime(Timestamptz(newExpiresAt, nanos))
                /\ shared_locks' = NotInSetClause(shared_locks)
                /\ last' = Completed("TryXLock", h, TRUE, FALSE, newExpiresAt, FALSE)
                /\ xgrant' = Granted(xgrant, h, newExpiresAt, now)
                /\ UNCHANGED sgrant
    /\ pc' = [pc EXCEPT ![h] = AfterCheck(last'.Acquired, "x_select")]
    /\ params' = [params EXCEPT ![h] = IF pc'[h] = "idle" THEN Idle ELSE @]
    /\ UNCHANGED <<now, nanos, exists, max_shared_locks, unparseable>>

\* ------------------------------------------------------------- TrySLock
\* BeginTx, newExpiresAt := time.Now() + TTLSeconds, and step 1: INSERT of a
\* row holding the caller's entry and MaxSharedLocks, ON CONFLICT (name) DO
\* NOTHING.  If the row was inserted the call commits and returns acquired;
\* otherwise it goes on to the SELECT, keeping newExpiresAt.
TrySLockInsert(h, ttl, k) ==
    /\ pc[h] = "idle"
    /\ Usable(client[h].db)
    /\ LET newExpiresAt == ExpiresAt(now, ttl)
       IN  IF ~exists
           THEN /\ exists' = TRUE
                /\ xlock_id' = NullString
                /\ x_expires_at' = NullTime
                /\ shared_locks' = << SharedLockEntry(h, newExpiresAt) >>
                /\ max_shared_locks' = k
                /\ unparseable' = FALSE
                /\ last' = Completed("TrySLock", h, TRUE, FALSE, newExpiresAt, TRUE)
                /\ sgrant' = SGranted(sgrant, h, newExpiresAt, now)
                /\ UNCHANGED <<pc, params>>
           ELSE /\ pc' = [pc EXCEPT ![h] = "s_select"]
                /\ params' = [params EXCEPT ![h] = [ttl |-> 0, exp |-> newExpiresAt]]
                /\ last' = Pending(last, now)
                /\ UNCHANGED <<rowVars, sgrant>>
    /\ UNCHANGED <<now, nanos, xgrant>>

\* Steps 2-7 under the row lock: SELECT ... FOR UPDATE, the exclusive check,
\* json.Unmarshal of shared_locks (an error if it fails), the filter, the
\* capacity check, renewal or append, UPDATE, COMMIT.
TrySLockUpdate(h) ==
    /\ pc[h] = "s_select"
    /\ LET newExpiresAt == params[h].exp
           validLocks == ValidLocks(shared_locks, now)
           alreadyHasLock == AlreadyHasLock(shared_locks, now, h)
       IN  IF XLockHeld(xlock_id, x_expires_at, now)
           THEN /\ last' = Completed("TrySLock", h, FALSE, FALSE, ZeroTime, FALSE)
                /\ UNCHANGED <<shared_locks, sgrant>>
           ELSE IF unparseable
           THEN /\ last' = Failed("TrySLock", h)
                /\ UNCHANGED <<shared_locks, sgrant>>
           ELSE IF ~alreadyHasLock /\ AtCapacity(max_shared_locks, validLocks)
           THEN /\ last' = Completed("TrySLock", h, FALSE, FALSE, ZeroTime, FALSE)
                /\ shared_locks' = RolledBack(shared_locks, validLocks)
                /\ UNCHANGED sgrant
           ELSE /\ shared_locks' = IF alreadyHasLock
                                   THEN RenewLock(validLocks, h, newExpiresAt)
                                   ELSE AddLock(validLocks, h, newExpiresAt)
                /\ last' = Completed("TrySLock", h, TRUE, FALSE, newExpiresAt, FALSE)
                /\ sgrant' = SGranted(sgrant, h, newExpiresAt, now)
    /\ pc' = [pc EXCEPT ![h] = AfterCheck(last'.Acquired, "s_select")]
    /\ params' = [params EXCEPT ![h] = IF pc'[h] = "idle" THEN Idle ELSE @]
    /\ UNCHANGED <<now, nanos, exists, xlock_id, x_expires_at, max_shared_locks,
                   unparseable, xgrant>>

\* --------------------------------------------------------------- Unlock
\* One transaction: SELECT ... FOR UPDATE; no row => released=false; clear
\* the exclusive columns if the caller is the holder; json.Unmarshal of
\* shared_locks, whose failure returns an error and lets the deferred
\* Rollback undo the clearing; drop the caller's shared entries; COMMIT.
Unlock(h) ==
    /\ pc[h] = "idle"
    /\ Usable(client[h].db)
    /\ IF ~exists
       THEN /\ last' = Completed("Unlock", h, FALSE, NoRowReleased, ZeroTime, FALSE)
            /\ UNCHANGED <<xlock_id, x_expires_at, shared_locks, xgrant>>
       ELSE IF unparseable
       THEN /\ last' = Failed("Unlock", h)
            /\ UNCHANGED <<xlock_id, x_expires_at, shared_locks, xgrant>>
       ELSE LET isX == IsXHolder(xlock_id, h)
                newSharedLocks == RemoveLocks(shared_locks, h)
                removed == Len(newSharedLocks) # Len(shared_locks)
            IN  /\ xlock_id' = IF isX THEN NullString ELSE xlock_id
                /\ x_expires_at' = IF isX THEN NullTime ELSE x_expires_at
                /\ shared_locks' = IF removed THEN newSharedLocks ELSE shared_locks
                /\ xgrant' = IF isX THEN [xgrant EXCEPT ![h] = NullTime] ELSE xgrant
                /\ last' = Completed("Unlock", h, FALSE, isX \/ removed, ZeroTime, FALSE)
    /\ exists' = (exists /\ UnlockKeepsRow)
    /\ sgrant' = [sgrant EXCEPT ![h] = NullTime]
    /\ UNCHANGED <<now, nanos, max_shared_locks, unparseable, pc, params>>

\* ---------------------------------------------------------------- clock
Tick ==
    /\ now < MaxTime
    /\ now' = now + 1
    /\ UNCHANGED nanos
    /\ last' = NoCall
    /\ xgrant' = Live(xgrant, now + 1)
    /\ sgrant' = SLive(sgrant, now + 1)
    /\ UNCHANGED <<rowVars, pc, params>>

\* ------------------------------------------------------- XLock and SLock
\* Entry of XLock: the loop starts with an attempt.  A holder makes one
\* blocking call.
XLock(h, ttl, d) ==
    /\ blocking[h].at = "idle"
    /\ pc[h] = "idle"
    /\ UNCHANGED client
    /\ blocking' = [blocking EXCEPT ![h] = Called("XLock", ttl, -1, d)]
    /\ last' = Pending(last, now)
    /\ UNCHANGED <<now, nanos, rowVars, pc, params, xgrant, sgrant>>

\* Entry of SLock.
SLock(h, ttl, k, d) ==
    /\ blocking[h].at = "idle"
    /\ pc[h] = "idle"
    /\ UNCHANGED client
    /\ blocking' = [blocking EXCEPT ![h] = Called("SLock", ttl, k, d)]
    /\ last' = Pending(last, now)
    /\ UNCHANGED <<now, nanos, rowVars, pc, params, xgrant, sgrant>>

\* The loop body calls TryXLock / TrySLock with the parameters of the call:
\* first the INSERT step, which returns acquired if it created the row.
BlockingInsert(h) ==
    /\ blocking[h].at = "try"
    /\ \/ blocking[h].op = "XLock" /\ TryXLockInsert(h, blocking[h].ttl)
       \/ blocking[h].op = "SLock" /\ TrySLockInsert(h, blocking[h].ttl, blocking[h].k)
    /\ UNCHANGED client
    /\ blocking' = [blocking EXCEPT ![h] =
           IF pc'[h] = "idle"
           THEN Attempted(@, FALSE, last'.Acquired, last'.ExpiresAt, Row' # Row)
           ELSE [@ EXCEPT !.at = "trying"]]

\* ... then the step under the row lock, after which the attempt returns.
BlockingUpdate(h) ==
    /\ blocking[h].at = "trying"
    /\ \/ blocking[h].op = "XLock" /\ TryXLockUpdate(h)
       \/ blocking[h].op = "SLock" /\ TrySLockUpdate(h)
    /\ UNCHANGED client
    /\ blocking' = [blocking EXCEPT ![h] =
           Attempted(@, FALSE, last'.Acquired, last'.ExpiresAt, Row' # Row)]

\* A statement of the attempt fails in the store: the attempt calls
\* transaction.Rollback() and returns the error (a failed Commit leaves
\* nothing committed either).
StoreError(h) ==
    /\ blocking[h].at \in {"try", "trying"}
    /\ pc' = [pc EXCEPT ![h] = "idle"]
    /\ params' = [params EXCEPT ![h] = Idle]
    /\ last' = Pending(last, now)
    /\ UNCHANGED client
    /\ blocking' = [blocking EXCEPT ![h] = Attempted(@, TRUE, FALSE, ZeroTime, FALSE)]
    /\ UNCHANGED <<now, nanos, rowVars, xgrant, sgrant>>

\* The caller's context is cancelled or its deadline elapses.
CtxCancel(h) ==
    /\ blocking[h].at \in {"try", "trying", "wait"}
    /\ ~blocking[h].ctxDone
    /\ UNCHANGED client
    /\ blocking' = [blocking EXCEPT ![h].ctxDone = TRUE]
    /\ last' = Pending(last, now)
    /\ UNCHANGED <<now, nanos, rowVars, pc, params, xgrant, sgrant>>

\* select { case <-ctx.Done(): return ctx.Err(); case <-time.After(...): }
Select(h) ==
    /\ blocking[h].at = "wait"
    /\ UNCHANGED client
    /\ blocking' = [blocking EXCEPT ![h] = Waited(@)]
    /\ last' = Pending(last, now)
    /\ UNCHANGED <<now, nanos, rowVars, pc, params, xgrant, sgrant>>

\* Unlock by a caller that is not inside a blocking call.
UnlockOutside(h) ==
    /\ blocking[h].at \in {"idle", "returned"}
    /\ Unlock(h)
    /\ UNCHANGED <<blocking, client>>

\* The try-operations and Unlock called directly: no blocking call is made.
Next ==
    \/ \E h \in Holders, ttl \in TTLs : TryXLockInsert(h, ttl) /\ UNCHANGED <<blocking, client>>
    \/ \E h \in Holders : TryXLockUpdate(h) /\ UNCHANGED <<blocking, client>>
    \/ \E h \in Holders, ttl \in TTLs, k \in Caps :
           TrySLockInsert(h, ttl, k) /\ UNCHANGED <<blocking, client>>
    \/ \E h \in Holders : TrySLockUpdate(h) /\ UNCHANGED <<blocking, client>>
    \/ \E h \in Holders : Unlock(h) /\ UNCHANGED <<blocking, client>>
    \/ Tick /\ UNCHANGED <<blocking, client>>

Spec == Init /\ [][Next]_vars

\* Every TrySLock call passes the same MaxSharedLocks value, SameK.
NextSameK ==
    \/ \E h \in Holders, ttl \in TTLs : TryXLockInsert(h, ttl) /\ UNCHANGED <<blocking, client>>
    \/ \E h \in Holders : TryXLockUpdate(h) /\ UNCHANGED <<blocking, client>>
    \/ \E h \in Holders, ttl \in TTLs :
           TrySLockInsert(h, ttl, SameK) /\ UNCHANGED <<blocking, client>>
    \/ \E h \in Holders : TrySLockUpdate(h) /\ UNCHANGED <<blocking, client>>
    \/ \E h \in Holders : Unlock(h) /\ UNCHANGED <<blocking, client>>
    \/ Tick /\ UNCHANGED <<blocking, client>>

SpecSameK == Init /\ [][NextSameK]_vars

\* A call that waits for the row lock gets it: the transaction holding it
\* commits or rolls back, and the goroutine of the call keeps running.
TryFairness ==
    \A h \in Holders :
        /\ WF_vars(TryXLockUpdate(h) /\ UNCHANGED <<blocking, client>>)
        /\ WF_vars(TrySLockUpdate(h) /\ UNCHANGED <<blocking, client>>)

\* The calls of SpecTryFair take a ttl of one tick less than the longest
\* and pass the capacity SameK.
NextTry ==
    \/ \E h \in Holders : TryXLockInsert(h, MaxTTL - 1) /\ UNCHANGED <<blocking, client>>
    \/ \E h \in Holders : TryXLockUpdate(h) /\ UNCHANGED <<blocking, client>>
    \/ \E h \in Holders : TrySLockInsert(h, MaxTTL - 1, SameK) /\ UNCHANGED <<blocking, client>>
    \/ \E h \in Holders : TrySLockUpdate(h) /\ UNCHANGED <<blocking, client>>
    \/ \E h \in Holders : Unlock(h) /\ UNCHANGED <<blocking, client>>
    \/ Tick /\ UNCHANGED <<blocking, client>>

SpecTryFair == Init /\ [][NextTry]_vars /\ TryFairness

\* The holders use the blocking calls and Unlock; the store may fail and the
\* contexts may be cancelled.  A holder may take a shared claim with TrySLock
\* before its blocking call.  No IntervalDuration is set (0).
BlockingTTLs == {0, MaxTTL}
NextBlocking ==
    \/ \E h \in Holders, ttl \in BlockingTTLs : XLock(h, ttl, 0)
    \/ \E h \in Holders, ttl \in BlockingTTLs, k \in Caps : SLock(h, ttl, k, 0)
    \/ \E h \in Holders :
           blocking[h].at = "idle" /\ TrySLockInsert(h, MaxTTL, -1) /\ UNCHANGED <<blocking, client>>
    \/ \E h \in Holders :
           blocking[h].at = "idle" /\ TrySLockUpdate(h) /\ UNCHANGED <<blocking, client>>
    \/ \E h \in Holders : BlockingInsert(h)
    \/ \E h \in Holders : BlockingUpdate(h)
    \/ \E h \in Holders : StoreError(h)
    \/ \E h \in Holders : CtxCancel(h)
    \/ \E h \in Holders : Select(h)
    \/ \E h \in Holders : UnlockOutside(h)
    \/ Tick /\ UNCHANGED <<blocking, client>>

SpecBlocking == Init /\ [][NextBlocking]_vars

\* ------------------------------------------------------------- failures
\* A statement of a directly called operation fails in the store (BeginTx,
\* INSERT, SELECT, UPDATE or Commit): the transaction is rolled back and the
\* call returns the error.
OpAt(h, op) ==
    \/ pc[h] = "idle"
    \/ pc[h] = "x_select" /\ op = "TryXLock"
    \/ pc[h] = "s_select" /\ op = "TrySLock"
StoreFails(h, op) ==
    /\ OpAt(h, op)
    /\ pc' = [pc EXCEPT ![h] = "idle"]
    /\ params' = [params EXCEPT ![h] = Idle]
    /\ last' = Failed(op, h)
    /\ UNCHANGED <<now, nanos, rowVars, xgrant, sgrant, blocking, client>>

\* Something other than this library overwrites shared_locks of the row with
\* JSON that json.Unmarshal cannot decode into []SharedLockEntry.
Corrupt ==
    /\ exists
    /\ ~unparseable
    /\ unparseable' = TRUE
    /\ shared_locks' = << >>
    /\ last' = NoCall
    /\ UNCHANGED <<now, nanos, exists, xlock_id, x_expires_at, max_shared_locks,
                   pc, params, xgrant, blocking, client>>
    /\ sgrant' = NoSGrant

\* The try-operations and Unlock called directly, with a store that may fail
\* and a row that may get corrupted.
FaultyTTLs == {0, MaxTTL}
NextFaulty ==
    \/ \E h \in Holders, ttl \in FaultyTTLs : TryXLockInsert(h, ttl) /\ UNCHANGED <<blocking, client>>
    \/ \E h \in Holders : TryXLockUpdate(h) /\ UNCHANGED <<blocking, client>>
    \/ \E h \in Holders, ttl \in FaultyTTLs, k \in Caps :
           TrySLockInsert(h, ttl, k) /\ UNCHANGED <<blocking, client>>
    \/ \E h \in Holders : TrySLockUpdate(h) /\ UNCHANGED <<blocking, client>>
    \/ \E h \in Holders : Unlock(h) /\ UNCHANGED <<blocking, client>>
    \/ \E h \in Holders, op \in {"TryXLock", "TrySLock", "Unlock"} : StoreFails(h, op)
    \/ Corrupt
    \/ Tick /\ UNCHANGED <<blocking, client>>

SpecFaulty == Init /\ [][NextFaulty]_vars

\* The blocking calls with every kind of IntervalDuration: negative, zero,
\* shorter and longer than the default.
Intervals == {-1, 0, 50, 200}
NextInterval ==
    \/ \E h \in Holders, d \in Intervals : XLock(h, MaxTTL, d)
    \/ \E h \in Holders, d \in Intervals : SLock(h, MaxTTL, SameK, d)
    \/ \E h \in Holders : BlockingInsert(h)
    \/ \E h \in Holders : BlockingUpdate(h)
    \/ \E h \in Holders : CtxCancel(h)
    \/ \E h \in Holders : Select(h)
    \/ \E h \in Holders : UnlockOutside(h)
    \/ Tick /\ UNCHANGED <<blocking, client>>

SpecInterval == Init /\ [][NextInterval]_vars

\* Contention as in TestXLock_Sequential: every holder calls XLock once with
\* a ttl that outlasts the run, and calls Unlock once it has acquired; the
\* store does not fail and no context is cancelled.
LongTTL == MaxTime + 1
ContendXLock(h) == XLock(h, LongTTL, 50)
ContendUnlock(h) ==
    /\ blocking[h].result = "ok"
    /\ blocking[h].unlock = "none"
    /\ Unlock(h)
    /\ UNCHANGED client
    /\ blocking' = [blocking EXCEPT ![h].unlock =
                        IF last'.Released THEN "released" ELSE "refused"]
NextContend ==
    \/ \E h \in Holders : ContendXLock(h)
    \/ \E h \in Holders : BlockingInsert(h)
    \/ \E h \in Holders : BlockingUpdate(h)
    \/ \E h \in Holders : Select(h)
    \/ \E h \in Holders : ContendUnlock(h)
    \/ Tick /\ UNCHANGED <<blocking, client>>

\* Every caller is a goroutine that keeps running: its call, each step of
\* its attempts, the timer of its wait and its Unlock are taken eventually.
ContendFairness ==
    \A h \in Holders :
        /\ WF_vars(ContendXLock(h))
        /\ WF_vars(BlockingInsert(h))
        /\ WF_vars(BlockingUpdate(h))
        /\ WF_vars(Select(h))
        /\ WF_vars(ContendUnlock(h))

SpecContend == Init /\ [][NextContend]_vars /\ ContendFairness

\* ------------------------------------------------- clock below a microsecond
\* The clock moves on within one unit of the store's resolution: time.Now()
\* has nanoseconds.  The values stand for a reading on the unit, one that
\* the column rounds down and one that it rounds up.
SubMicro == {0, 400, 600}
Tock(n) ==
    /\ n > nanos
    /\ nanos' = n
    /\ last' = NoCall
    /\ UNCHANGED <<now, rowVars, pc, params, xgrant, sgrant, blocking, client>>

\* Exclusive locking at clock readings of any precision.  (The shared set is
\* stored as JSON, which keeps the nanoseconds of every entry.)
NextPrecision ==
    \/ \E h \in Holders, ttl \in TTLs :
           TryXLockInsert(h, ttl) /\ UNCHANGED <<blocking, client>>
    \/ \E h \in Holders : TryXLockUpdate(h) /\ UNCHANGED <<blocking, client>>
    \/ \E h \in Holders : Unlock(h) /\ UNCHANGED <<blocking, client>>
    \/ Tick /\ UNCHANGED <<blocking, client>>
    \/ \E n \in SubMicro : Tock(n)
SpecPrecision == Init /\ [][NextPrecision]_vars

\* ------------------------------------------------------ other claimants
\* Processes besides the two holders that take shared claims on the same
\* name.  Their TrySLock calls (MaxSharedLocks = -1) are taken whole, from
\* BeginTx to the return, without a step of anyone else in between.
OtherTrySLock(id, ttl) ==
    /\ LET newExpiresAt == ExpiresAt(now, ttl)
           validLocks == ValidLocks(shared_locks, now)
           alreadyHasLock == AlreadyHasLock(shared_locks, now, id)
       IN  IF ~exists
           THEN /\ exists' = TRUE
                /\ xlock_id' = NullString
                /\ x_expires_at' = NullTime
                /\ shared_locks' = << SharedLockEntry(id, newExpiresAt) >>
                /\ max_shared_locks' = -1
                /\ unparseable' = FALSE
                /\ sgrant' = SGranted(sgrant, id, newExpiresAt, now)
           ELSE /\ IF \/ XLockHeld(xlock_id, x_expires_at, now)
                      \/ unparseable
                   THEN UNCHANGED <<shared_locks, sgrant>>
                   ELSE IF ~alreadyHasLock /\ AtCapacity(max_shared_locks, validLocks)
                   THEN /\ shared_locks' = RolledBack(shared_locks, validLocks)
                        /\ UNCHANGED sgrant
                   ELSE /\ shared_locks' =
                               IF alreadyHasLock
                               THEN RenewLock(validLocks, id, newExpiresAt)
                               ELSE AddLock(validLocks, id, newExpiresAt)
                        /\ sgrant' = SGranted(sgrant, id, newExpiresAt, now)
                /\ UNCHANGED <<exists, xlock_id, x_expires_at, max_shared_locks,
                               unparseable>>
    /\ last' = NoCall
    /\ UNCHANGED <<now, nanos, pc, params, xgrant, blocking, client>>

\* The two holders among other claimants.
CrowdTTLs == {MaxTTL - 1, MaxTTL}
NextCrowd ==
    \/ \E id \in Others, ttl \in CrowdTTLs : OtherTrySLock(id, ttl)
    \/ \E h \in Holders, ttl \in CrowdTTLs :
           TryXLockInsert(h, ttl) /\ UNCHANGED <<blocking, client>>
    \/ \E h \in Holders : TryXLockUpdate(h) /\ UNCHANGED <<blocking, client>>
    \/ \E h \in Holders, ttl \in CrowdTTLs :
           TrySLockInsert(h, ttl, -1) /\ UNCHANGED <<blocking, client>>
    \/ \E h \in Holders : TrySLockUpdate(h) /\ UNCHANGED <<blocking, client>>
    \/ \E h \in Holders : Unlock(h) /\ UNCHANGED <<blocking, client>>
    \/ Tick /\ UNCHANGED <<blocking, client>>
SpecCrowd == Init /\ [][NextCrowd]_vars

\* ------------------------------------------------------------ Initialize
\* Initialize() is connect() followed by setupTables().  connect: sql.Open;
\* when it fails the process ends in log.Fatalf, otherwise defer db.Close() is
\* registered and the handle is stored in c.db.
Connect(h) ==
    /\ client[h].at = "new"
    /\ \E opened \in BOOLEAN :
           client' = [client EXCEPT ![h] =
                         IF opened THEN [@ EXCEPT !.at = "connect", !.db = "open"]
                                   ELSE [@ EXCEPT !.at = "exited"]]
    /\ last' = NoCall
    /\ UNCHANGED <<now, nanos, rowVars, pc, params, xgrant, sgrant, blocking>>

\* connect returns nil: the deferred db.Close() runs on the stored handle.
ConnectReturn(h) ==
    /\ client[h].at = "connect"
    /\ client' = [client EXCEPT ![h] =
                      [@ EXCEPT !.at = "setupTables", !.db = DeferredClose(@)]]
    /\ last' = NoCall
    /\ UNCHANGED <<now, nanos, rowVars, pc, params, xgrant, sgrant, blocking>>

\* setupTables -> createLockTable: CREATE TABLE IF NOT EXISTS through
\* c.db.ExecContext; its error is what Initialize returns.
SetupTables(h) ==
    /\ client[h].at = "setupTables"
    /\ client' = [client EXCEPT ![h] =
                      [@ EXCEPT !.at = "returned", !.err = ~Usable(client[h].db)]]
    /\ last' = NoCall
    /\ UNCHANGED <<now, nanos, rowVars, pc, params, xgrant, sgrant, blocking>>

\* A locking operation on a client whose handle is not open: c.db.BeginTx
\* fails and the operation returns that error.
BeginTxFails(h, op) ==
    /\ client[h].at = "returned"
    /\ ~Usable(client[h].db)
    /\ pc[h] = "idle"
    /\ last' = Failed(op, h)
    /\ UNCHANGED <<now, nanos, rowVars, pc, params, xgrant, sgrant, blocking, client>>

\* Every process builds its client with Initialize() and then uses it.
InitNew ==
    /\ client = [h \in Holders |-> NewClient]
    /\ EmptyStore
NextInitialize ==
    \/ \E h \in Holders : Connect(h)
    \/ \E h \in Holders : ConnectReturn(h)
    \/ \E h \in Holders : SetupTables(h)
    \/ \E h \in Holders, op \in {"TryXLock", "TrySLock", "Unlock"} : BeginTxFails(h, op)
    \/ Tick /\ UNCHANGED <<blocking, client>>
SpecInitialize == InitNew /\ [][NextInitialize]_vars

\* ===================================================== claims: vocabulary
\* Validity as the specification defines it: the expiry is later than time t.
XValidIn(r, t) == r.xlock_id.Valid /\ r.x_expires_at.Valid /\ r.x_expires_at.Time > t
ValidIdx(sl, t) == {i \in 1 .. Len(sl) : sl[i].expires_at > t}
ValidIds(sl, t) == {sl[i].lock_id : i \in ValidIdx(sl, t)}
IdsOf(sl) == {sl[i].lock_id : i \in 1 .. Len(sl)}
EntryOf(sl, id) == CHOOSE i \in 1 .. Len(sl) : sl[i].lock_id = id
\* The call that completed in the last step ran on an existing row.
OnRow(op) == last.op = op /\ ~last.created /\ last.pre.exists

\* ------------------------------------------------------------------- C1
\* C1: at no instant do two distinct holders both have an exclusive
\* acquisition (returned with acquired=true) that is neither expired nor
\* released by Unlock.
C1_ExclusiveMutex ==
    \A h1 \in Holders, h2 \in Holders :
        (/\ h1 # h2
         /\ xgrant[h1].Valid /\ xgrant[h1].Time > now)
        => ~(xgrant[h2].Valid /\ xgrant[h2].Time > now)
\* One holder holds a live exclusive acquisition and another holder's TryXLock
\* has just been refused.
C1_Witness ==
    \E h \in Holders :
        /\ xgrant[h].Valid /\ xgrant[h].Time > now
        /\ last.op = "TryXLock" /\ last.id # h /\ ~last.Acquired

\* ------------------------------------------------------------------- C2
\* C2: in no reachable state is the exclusive holder valid while some
\* shared-holder entry is valid.
C2_NoExclusiveWithShared ==
    ~(XValidIn(Row, now) /\ ValidIdx(shared_locks, now) # {})
\* A valid shared entry is stored, the exclusive holder recorded in the row
\* has expired, and a TryXLock has just been refused because of the entry.
C2_Witness ==
    /\ ValidIdx(shared_locks, now) # {}
    /\ xlock_id.Valid /\ ~XValidIn(Row, now)
    /\ OnRow("TryXLock") /\ ~last.Acquired

\* ------------------------------------------------------------------- C3
\* C3: whenever the stored maxSharedHolders is not -1, the number of valid
\* shared holders (each ID once) is at most the stored maxSharedHolders, for
\* every capacity the first claimant supplies, 0 included, and in the state
\* right after TrySLock created the row.
C3_StoredCapacity ==
    (exists /\ max_shared_locks # -1)
        => Cardinality(ValidIds(shared_locks, now)) <= max_shared_locks

\* ------------------------------------------------------------------- C4
\* C4: when every TrySLock call passes the same maxSharedHolders = k, at most
\* k shared holders are valid at the same time, whatever TryXLock, Unlock and
\* expiry steps precede or interleave (checked under SpecSameK, k = SameK).
C4_CallerCapacity ==
    Cardinality(ValidIds(shared_locks, now)) <= SameK

\* ------------------------------------------------------------------- C5
\* C5: TrySLock on a row whose exclusive holder is valid returns
\* acquired=false, and TryXLock on a row with a valid shared entry returns
\* acquired=false, whoever the caller is (no upgrade, no downgrade).
C5_MutualBlocking ==
    /\ (OnRow("TrySLock") /\ XValidIn(last.pre, now)) => ~last.Acquired
    /\ (OnRow("TryXLock") /\ ValidIdx(last.pre.shared_locks, now) # {})
           => ~last.Acquired
\* The caller of a refused TryXLock is itself a valid shared holder.
C5_Witness ==
    /\ OnRow("TryXLock") /\ ~last.Acquired
    /\ last.id \in ValidIds(last.pre.shared_locks, now)

\* ------------------------------------------------------------------- C6
\* C6: TryXLock on a row whose exclusive holder is valid returns
\* acquired=false and leaves the holder and its expiry as they were, also
\* when the valid holder is the caller.
C6_NotReentrant ==
    (OnRow("TryXLock") /\ XValidIn(last.pre, now))
        => /\ ~last.Acquired
           /\ xlock_id = last.pre.xlock_id
           /\ x_expires_at = last.pre.x_expires_at
\* The valid exclusive holder has just called TryXLock again.
C6_Witness ==
    /\ OnRow("TryXLock") /\ XValidIn(last.pre, now)
    /\ last.pre.xlock_id.String = last.id

\* ------------------------------------------------------------------- C7
\* C7: on a row where neither the exclusive holder nor any shared entry has
\* an expiry later than now, TryXLock returns acquired=true and makes the
\* caller the exclusive holder, and TrySLock returns acquired=true when the
\* capacity admits one holder; no Unlock is needed, and an expiry equal to
\* now counts as expired.
C7_ExpiryFrees ==
    LET free == ~XValidIn(last.pre, now) /\ ValidIdx(last.pre.shared_locks, now) = {}
    IN  /\ (OnRow("TryXLock") /\ free)
               => last.Acquired /\ xlock_id = SomeString(last.id)
        /\ (OnRow("TrySLock") /\ free
                /\ (last.pre.max_shared_locks = -1 \/ last.pre.max_shared_locks > 0))
               => last.Acquired
\* A TryXLock has just taken over from another holder whose lease ended at
\* this very instant and who never unlocked.
C7_Witness ==
    /\ OnRow("TryXLock") /\ last.Acquired
    /\ last.pre.xlock_id.Valid /\ last.pre.xlock_id.String # last.id
    /\ last.pre.x_expires_at.Time = now

\* ------------------------------------------------------------------- C8
\* C8: TrySLock by a holder without a valid entry returns acquired=true when
\* the row has no valid exclusive holder and the stored capacity is -1 or
\* above the number of valid entries.
C8_SharedAdmission ==
    (/\ OnRow("TrySLock")
     /\ last.id \notin ValidIds(last.pre.shared_locks, now)
     /\ ~XValidIn(last.pre, now)
     /\ \/ last.pre.max_shared_locks = -1
        \/ Cardinality(ValidIdx(last.pre.shared_locks, now)) < last.pre.max_shared_locks)
        => last.Acquired
\* With capacity -1 a second holder has just joined a valid shared holder.
C8_Witness ==
    /\ OnRow("TrySLock") /\ last.Acquired
    /\ last.pre.max_shared_locks = -1
    /\ ValidIds(last.pre.shared_locks, now) \ {last.id} # {}
    /\ Cardinality(ValidIds(shared_locks, now)) = 2

\* ------------------------------------------------------------------- C9
\* C9: TrySLock by a holder that has a valid entry, on a row without a valid
\* exclusive holder, returns acquired=true whatever the capacity, and after
\* the call the number of valid shared entries and the holder IDs of the
\* stored set are those of the valid entries before the call.
C9_RenewalBypassesCapacity ==
    (/\ OnRow("TrySLock")
     /\ last.id \in ValidIds(last.pre.shared_locks, now)
     /\ ~XValidIn(last.pre, now))
        => /\ last.Acquired
           /\ Cardinality(ValidIdx(shared_locks, now))
                  = Cardinality(ValidIdx(last.pre.shared_locks, now))
           /\ IdsOf(shared_locks) = ValidIds(last.pre.shared_locks, now)

\* ------------------------------------------------------------------ C10
\* C10: a successful TrySLock renewal by a holder with a valid entry stores
\* an expiry that is not earlier than the entry's previous expiry, for every
\* ttlSeconds passed on the renewing call.
C10_LeaseMonotonic ==
    (/\ OnRow("TrySLock") /\ last.Acquired
     /\ last.id \in ValidIds(last.pre.shared_locks, now))
        => shared_locks[EntryOf(shared_locks, last.id)].expires_at
               >= last.pre.shared_locks[EntryOf(last.pre.shared_locks, last.id)].expires_at

\* ------------------------------------------------------------------ C11
\* C11: after Unlock(h) commits on an existing row, the exclusive holder ID
\* is not h (it is cleared with its expiry if it was h, expired or not) and
\* no shared entry with ID h remains, valid or expired; both are removed in
\* the same call when h had both.
C11_UnlockClearsOwnClaims ==
    (last.op = "Unlock" /\ last.pre.exists)
        => /\ ~(xlock_id.Valid /\ xlock_id.String = last.id)
           /\ (last.pre.xlock_id.Valid /\ last.pre.xlock_id.String = last.id)
                  => (~xlock_id.Valid /\ ~x_expires_at.Valid)
           /\ last.id \notin IdsOf(shared_locks)
\* The caller of Unlock was the recorded exclusive holder with an expired
\* lease and had a shared entry as well.
C11_Witness ==
    /\ last.op = "Unlock" /\ last.pre.exists
    /\ last.pre.xlock_id.Valid /\ last.pre.xlock_id.String = last.id
    /\ ~XValidIn(last.pre, now)
    /\ last.id \in IdsOf(last.pre.shared_locks)

\* ------------------------------------------------------------------ C12
\* C12: Unlock(h) on an existing row returns released=true exactly when the
\* row it read had h as exclusive holder ID or a shared entry with ID h; when
\* neither is the case the row is identical before and after the call.
C12_UnlockResult ==
    (last.op = "Unlock" /\ last.pre.exists)
        => LET own == \/ (last.pre.xlock_id.Valid /\ last.pre.xlock_id.String = last.id)
                      \/ last.id \in IdsOf(last.pre.shared_locks)
           IN  /\ last.Released <=> own
               /\ ~own => Row = last.pre
\* Unlock by a holder without any claim, on a row where another holder is
\* recorded as exclusive holder or has a shared entry.
C12_Witness ==
    /\ last.op = "Unlock" /\ last.pre.exists /\ ~last.Released
    /\ (last.pre.xlock_id.Valid \/ Len(last.pre.shared_locks) > 0)

\* ------------------------------------------------------------------ C13
\* C13: Unlock for a name that has no row returns released=false and does
\* not create a row.
C13_UnlockUnseenName ==
    (last.op = "Unlock" /\ ~last.pre.exists) => (~last.Released /\ ~exists)
\* Unlock has just been called on a name without a row.
C13_Witness == last.op = "Unlock" /\ ~last.pre.exists

\* ------------------------------------------------------------------ C14
\* C14: when the valid exclusive holder, or the only valid shared holder,
\* has unlocked with released=true and no other call completed since, a
\* TryXLock by another holder returns acquired=true; when the valid exclusive
\* holder has unlocked, a TrySLock by another holder returns acquired=true.
C14_ReleaseHandsOver ==
    /\ (/\ OnRow("TryXLock") /\ last.after.kind \in {"exclusive", "shared"}
        /\ last.id # last.after.id) => last.Acquired
    /\ (/\ OnRow("TrySLock") /\ last.after.kind = "exclusive"
        /\ last.id # last.after.id) => last.Acquired
\* C14 as amended: the TrySLock after the exclusive holder's Unlock returns
\* acquired=true when the stored capacity is -1 or at least 1.
C14_ReleaseHandsOverWithinCapacity ==
    /\ (/\ OnRow("TryXLock") /\ last.after.kind \in {"exclusive", "shared"}
        /\ last.id # last.after.id) => last.Acquired
    /\ (/\ OnRow("TrySLock") /\ last.after.kind = "exclusive"
        /\ last.id # last.after.id
        /\ (last.pre.max_shared_locks = -1 \/ last.pre.max_shared_locks >= 1))
           => last.Acquired
\* Right after the only valid shared holder unlocked, another holder's
\* TryXLock has acquired the lock.
C14_Witness ==
    /\ OnRow("TryXLock") /\ last.Acquired
    /\ last.after.kind = "shared" /\ last.id # last.after.id

C15_WitnessOwnClaim ==
    \E h \in Holders :
        /\ blocking[h].result = "cancelled" /\ blocking[h].op = "XLock"
        /\ ValidIds(shared_locks, now) = {h}

\* ------------------------------------------------------------------ C16
\* C16: when every holder calls XLock with a long ttl and unlocks after it
\* acquired, with fair scheduling, no cancellation and no store failure:
\* eventually every XLock has returned success and every Unlock has returned
\* released=true; at no time two holders are between their acquisition and
\* their Unlock; and no Unlock returns released=false.
Holding(h) == blocking[h].result = "ok" /\ blocking[h].unlock = "none"
C16_EventualAcquisition ==
    /\ <>(\A h \in Holders :
              blocking[h].result = "ok" /\ blocking[h].unlock = "released")
    /\ [](\A g, h \in Holders : (Holding(g) /\ Holding(h)) => g = h)
    /\ [](\A h \in Holders : blocking[h].unlock # "refused")
\* Every holder has acquired and unlocked, and one of them had to wait and
\* retry for it.
C16_Witness ==
    /\ \A h \in Holders : blocking[h].result = "ok" /\ blocking[h].unlock = "released"
    /\ \E h \in Holders : blocking[h].retried

\* ------------------------------------------------------------------ C17
\* C17: a blocking call returns success only in the step in which its own
\* TryXLock (resp. TrySLock) attempt returned acquired=true, with that
\* attempt's expiresAt; an attempt of the call that returned acquired=false
\* is followed by the wait, not by a return; and the wait is left only for
\* another attempt, or with the cancellation error once the context is done.
TryOf(op) == IF op = "XLock" THEN "TryXLock" ELSE "TrySLock"
OwnAttemptReturned(h) ==
    /\ blocking[h].at \in {"try", "trying"}
    /\ last'.op = TryOf(blocking[h].op) /\ last'.id = h
C17_WrapperOutcomes ==
    [][\A h \in Holders :
        /\ (blocking'[h].result = "ok" /\ blocking[h].result # "ok")
               => /\ OwnAttemptReturned(h) /\ last'.Acquired
                  /\ blocking'[h].ExpiresAt = last'.ExpiresAt
        /\ (OwnAttemptReturned(h) /\ ~last'.Acquired)
               => blocking'[h].at = "wait" /\ blocking'[h].result = "none"
        /\ (blocking[h].at = "wait" /\ blocking'[h].at # "wait")
               => \/ blocking'[h].at = "try"
                  \/ /\ blocking[h].ctxDone
                     /\ blocking'[h].at = "returned"
                     /\ blocking'[h].result = "cancelled"
      ]_vars
\* A blocking call has returned success after at least one refused attempt
\* and one wait.
C17_Witness ==
    \E h \in Holders : blocking[h].result = "ok" /\ blocking[h].retried

\* ------------------------------------------------------------------ C18
\* C18: once an attempt of a blocking call has returned a store error, the
\* call has returned, with the error and not the cancellation outcome, and
\* no attempt of the call changed the row; a call is in its wait or in a
\* later attempt only if none of its attempts returned an error.
C18_StoreErrorsNotRetried ==
    \A h \in Holders :
        /\ blocking[h].failed
               => /\ blocking[h].at = "returned"
                  /\ blocking[h].result = "error"
                  /\ ~blocking[h].wrote
        /\ blocking[h].result = "error" => blocking[h].failed
\* An attempt made after a wait failed in the store, and the call returned
\* the error.
C18_Witness ==
    \E h \in Holders :
        blocking[h].failed /\ blocking[h].retried /\ blocking[h].result = "error"

\* ------------------------------------------------------------------ C19
\* C19: TryXLock(h, ttl) on a name without a row creates the row with
\* exclusive holder (h, now + ttl) and an empty shared set and returns
\* acquired=true; TrySLock(h, ttl, k) on a name without a row creates the row
\* with no exclusive holder, the one shared entry (h, now + ttl) and stored
\* capacity k and returns acquired=true; a call creates the row only if
\* there was none, and a first call that finds the row created by another
\* goes on to the checks on the committed row.
C19_Creates ==
    ~exists => \A h \in Holders, ttl \in TTLs :
        /\ TryXLockInsert(h, ttl)
               => /\ exists'
                  /\ xlock_id' = SomeString(h)
                  /\ x_expires_at' = SomeTime(now + ttl)
                  /\ shared_locks' = << >>
                  /\ last'.op = "TryXLock" /\ last'.created /\ last'.Acquired
                  /\ last'.ExpiresAt = now + ttl
        /\ \A k \in Caps :
              TrySLockInsert(h, ttl, k)
               => /\ exists'
                  /\ xlock_id' = NullString
                  /\ shared_locks' = << SharedLockEntry(h, now + ttl) >>
                  /\ max_shared_locks' = k
                  /\ last'.op = "TrySLock" /\ last'.created /\ last'.Acquired
                  /\ last'.ExpiresAt = now + ttl
C19_FirstAcquisitionCreates ==
    /\ [][C19_Creates]_vars
    /\ [](last.created => (~last.pre.exists /\ exists /\ last.Acquired))
    /\ []((last.op \in {"TryXLock", "TrySLock"} /\ ~last.pre.exists) => last.created)
    /\ [](\A h \in Holders : pc[h] # "idle" => exists)
\* Two first calls raced: the row was created by a TrySLock with a lease in
\* the future, and the other holder's call is before its SELECT on that row.
C19_Witness ==
    /\ exists /\ max_shared_locks = 0
    /\ \E h \in Holders :
          /\ pc[h] = "x_select"
          /\ shared_locks = << SharedLockEntry(CHOOSE g \in Holders : g # h, MaxTTL) >>

\* ------------------------------------------------------------------ C20
\* C20: a row that exists exists in every later state, whatever TryXLock,
\* TrySLock, Unlock and the clock do; a lock whose claims were all released
\* or have expired is an existing row without valid exclusive holder and
\* without valid shared entry.
C20_RowsNeverDeleted ==
    /\ [][exists => exists']_vars
    /\ []((last.op = "Unlock" /\ last.Released) => exists)
\* The row exists and, after an Unlock that released, has neither an
\* exclusive holder ID nor a shared entry.
C20_Witness ==
    /\ last.op = "Unlock" /\ last.Released
    /\ exists /\ ~xlock_id.Valid /\ shared_locks = << >>

\* ------------------------------------------------------------------ C21
\* C21: the stored capacity of a row equals the MaxSharedLocks value supplied
\* by the first TrySLock call on the name (checked under SpecSameK, where
\* every TrySLock call supplies SameK: once a TrySLock has returned, the
\* stored capacity is SameK).
C21_CapacityFromFirstClaimant ==
    last.op = "TrySLock" => max_shared_locks = SameK
\* The part of C21 that holds: the stored capacity of an existing row never
\* changes, whatever value a later TrySLock supplies.
C21_CapacityNeverChanges ==
    [][exists => max_shared_locks' = max_shared_locks]_vars

\* ------------------------------------------------------------------ C22
\* C22: when TryXLock or TrySLock has returned acquired=false or an error,
\* the row (exclusive holder ID and expiry, shared set with its expired
\* entries, capacity) is as the call found it.
C22_FailedTryChangesNothing ==
    (last.op \in {"TryXLock", "TrySLock"} /\ (~last.Acquired \/ last.err))
        => Row = last.pre
\* A TrySLock was refused for capacity on a row that still stores an expired
\* entry.
C22_Witness ==
    /\ last.op = "TrySLock" /\ ~last.Acquired /\ ~last.err
    /\ ~XValidIn(last.pre, now)
    /\ \E i \in 1 .. Len(shared_locks) : shared_locks[i].expires_at <= now
\* A try-operation returned an error on an existing row.
C22_WitnessError ==
    /\ last.op \in {"TryXLock", "TrySLock"} /\ last.err /\ exists

\* ------------------------------------------------------------------ C23
\* C23: every TryXLock, TrySLock or Unlock call on a row whose shared_locks
\* cannot be parsed returns an error and leaves the row unchanged, also when
\* the exclusive holder of the row is valid.
C23_CorruptionReported ==
    (/\ last.op \in {"TryXLock", "TrySLock", "Unlock"}
     /\ last.pre.exists /\ last.pre.unparseable)
        => (last.err /\ Row = last.pre)
\* The part of C23 that holds: Unlock on such a row returns an error and
\* leaves the row unchanged, also when the caller is the exclusive holder;
\* and no call changes such a row.
C23_UnlockReportsCorruption ==
    /\ (last.op = "Unlock" /\ last.pre.exists /\ last.pre.unparseable)
           => (last.err /\ Row = last.pre)
    /\ (last.op # "none" /\ last.pre.exists /\ last.pre.unparseable)
           => Row = last.pre

\* ------------------------------------------------------------------ C24
\* C24: a TryXLock or TrySLock call that has reached its check on the row
\* makes one more step, in which it returns: it does not stay in the call
\* when it is refused, also when a valid exclusive holder is what refuses
\* it; and every such call returns.
CheckOf(at) == IF at = "x_select" THEN "TryXLock" ELSE "TrySLock"
C24_Step(h) ==
    (/\ pc[h] # "idle"
     /\ \/ pc'[h] # pc[h]
        \/ last'.op # "none" /\ last'.id = h)
        => /\ pc'[h] = "idle"
           /\ last'.op = CheckOf(pc[h]) /\ last'.id = h
           /\ XLockHeld(xlock_id, x_expires_at, now) => ~last'.Acquired
C24_SingleAttempt ==
    /\ [][\A h \in Holders : C24_Step(h)]_vars
    /\ \A h \in Holders : (pc[h] # "idle") ~> (pc[h] = "idle")
\* A TryXLock has returned acquired=false because another holder's exclusive
\* lease, still valid, held the lock.
C24_Witness ==
    /\ OnRow("TryXLock") /\ ~last.Acquired /\ pc[last.id] = "idle"
    /\ XValidIn(Row, now) /\ xlock_id.String # last.id

\* ------------------------------------------------------------------ C25
\* C25: in every reachable state no two valid entries of the stored shared
\* set have the same holder ID.
C25_UniqueSharedHolders ==
    \A i, j \in ValidIdx(shared_locks, now) :
        shared_locks[i].lock_id = shared_locks[j].lock_id => i = j
\* A holder has renewed its valid entry while the other holder's entry was
\* valid too.
C25_Witness ==
    /\ OnRow("TrySLock") /\ last.Acquired
    /\ last.id \in ValidIds(last.pre.shared_locks, now)
    /\ Cardinality(ValidIdx(shared_locks, now)) = 2

\* ------------------------------------------------------------------ C26
\* C26: after a TrySLock on an existing row returned acquired=true, the
\* stored shared set is the sequence of the entries that were valid when the
\* call read the row, in their order and with their expiries, except the
\* caller's: its entry carries the expiry the call computed (the time.Now()
\* of the call plus ttl), in place for a renewal and appended last for a new
\* claim; no entry that was expired when the call read the row is stored.
WereValid(l, t) == SelectSeq(l.pre.shared_locks, LAMBDA e : e.expires_at > t)
C26_Stored(l, t) ==
    LET v == WereValid(l, t)
        own == {i \in 1 .. Len(v) : v[i].lock_id = l.id}
    IN  IF own = {}
        THEN v \o << [lock_id |-> l.id, expires_at |-> l.ExpiresAt] >>
        ELSE [i \in 1 .. Len(v) |->
                 IF i \in own THEN [lock_id |-> l.id, expires_at |-> l.ExpiresAt]
                              ELSE v[i]]
C26_Computed ==
    \A h \in Holders :
        (pc[h] = "idle" /\ pc'[h] = "s_select")
            => \A ttl \in TTLs :
                   (\E k \in Caps : TrySLockInsert(h, ttl, k))
                       => params'[h].exp = now + ttl
C26_LazyCleanup ==
    /\ []((OnRow("TrySLock") /\ last.Acquired) => shared_locks = C26_Stored(last, now))
    /\ [][C26_Computed]_vars
\* A TrySLock has acquired on a row that stored an expired entry of another
\* holder next to a valid one.
C26_Witness ==
    /\ OnRow("TrySLock") /\ last.Acquired
    /\ Len(last.pre.shared_locks) = 2 /\ Len(WereValid(last, now)) = 1
    /\ Len(shared_locks) = 2

\* ------------------------------------------------------------------ C27
\* C27: no step takes the row from a state with a valid exclusive holder to
\* a state with a valid shared holder, or from a state with a valid shared
\* holder to a state with a valid exclusive holder.
XValidAt(xid, xexp, t) == xid.Valid /\ xexp.Valid /\ xexp.Time > t
SValidAt(sl, t) == \E i \in 1 .. Len(sl) : sl[i].expires_at > t
C27_NoDirectSwitch ==
    [][/\ ~(/\ XValidAt(xlock_id, x_expires_at, now)
            /\ SValidAt(shared_locks', now'))
       /\ ~(/\ SValidAt(shared_locks, now)
            /\ XValidAt(xlock_id', x_expires_at', now'))]_vars
\* The kinds have switched through expiry: a TrySLock has acquired a lease
\* that is valid on a row that records the exclusive holder whose lease ran
\* out.
C27_Witness ==
    /\ OnRow("TrySLock") /\ last.Acquired
    /\ xlock_id.Valid /\ ~XValidAt(xlock_id, x_expires_at, now)
    /\ SValidAt(shared_locks, now)

\* ------------------------------------------------------------------ C28
\* C28: every wait a blocking call has completed lasted 100 ms when the call
\* was passed a zero or negative interval, and the passed interval when that
\* is positive; the wait is strictly positive, and it is the same for every
\* retry of the call.
C28_Expected(h) == IF blocking[h].passed <= 0 THEN 100 ELSE blocking[h].passed
C28_RetryInterval ==
    /\ [](\A h \in Holders :
              blocking[h].retried
                  => blocking[h].waited = C28_Expected(h) /\ blocking[h].waited > 0)
    /\ [][\A h \in Holders :
              (blocking[h].retried /\ blocking'[h].op = blocking[h].op)
                  => blocking'[h].waited = blocking[h].waited]_vars
\* A call that was passed a negative interval is in its second wait.
C28_Witness ==
    \E h \in Holders :
        /\ blocking[h].passed < 0
        /\ blocking[h].retried /\ blocking[h].at = "wait"

\* ---------------------------------------------------------------- C29
\* C29: once opening the store succeeded, Initialize leaves a usable client:
\* the handle is still open when setupTables creates the table, Initialize
\* returns no error, and the handle is open for the calls that follow.
C29_InitializeLeavesUsableClient ==
    \A h \in Holders :
        /\ client[h].at = "setupTables" => Usable(client[h].db)
        /\ client[h].at = "returned" => (~client[h].err /\ Usable(client[h].db))
\* What the code does instead: Initialize always returns with the stored handle
\* closed and with the error of CREATE TABLE.
C29_InitializeClosesHandle ==
    \A h \in Holders :
        client[h].at \in {"setupTables", "returned"} => ~Usable(client[h].db)

\* ---------------------------------------------------------------- C30
\* C30: an acquisition on an existing row touches only the columns of its
\* own kind.  A TryXLock that acquired changed only xlock_id and
\* x_expires_at: the shared set, expired entries included, and the capacity
\* are as before.  A TrySLock that acquired changed only shared_locks: the
\* exclusive holder ID (also an expired one) and expiry, and the capacity,
\* are as before.
C30_OwnKindOnly ==
    /\ (OnRow("TryXLock") /\ last.Acquired) =>
           /\ shared_locks = last.pre.shared_locks
           /\ max_shared_locks = last.pre.max_shared_locks
           /\ exists /\ unparseable = last.pre.unparseable
    /\ (OnRow("TrySLock") /\ last.Acquired) =>
           /\ xlock_id = last.pre.xlock_id
           /\ x_expires_at = last.pre.x_expires_at
           /\ max_shared_locks = last.pre.max_shared_locks
           /\ exists /\ unparseable = last.pre.unparseable
\* A TryXLock acquired a row whose shared set held (expired) entries.
C30_Witness ==
    /\ OnRow("TryXLock") /\ last.Acquired
    /\ last.pre.shared_locks # << >>
    /\ xlock_id # last.pre.xlock_id
\* A TrySLock acquired a row that still records an expired exclusive holder.
C30_WitnessShared ==
    /\ OnRow("TrySLock") /\ last.Acquired
    /\ last.pre.xlock_id.Valid
    /\ shared_locks # last.pre.shared_locks

\* ---------------------------------------------------------------- C31
\* C31: Unlock(h) on an existing row leaves xlock_id and x_expires_at as they
\* were when the recorded exclusive holder is not h, and leaves the entries
\* of every other ID in the shared set, with the same expiry and in the same
\* relative order; so an Unlock by a holder whose lease was taken over does
\* not release the new holder's lock.
C31_OfOthers(sl, id) == SelectSeq(sl, LAMBDA e : e.lock_id # id)
C31_UnlockSparesOthers ==
    (last.op = "Unlock" /\ last.pre.exists)
        => /\ ~(last.pre.xlock_id.Valid /\ last.pre.xlock_id.String = last.id)
                  => /\ xlock_id = last.pre.xlock_id
                     /\ x_expires_at = last.pre.x_expires_at
           /\ C31_OfOthers(shared_locks, last.id)
                  = C31_OfOthers(last.pre.shared_locks, last.id)
\* Unlock removed the caller's entry from a set that also held the entries
\* of two other claimants, with different expiries.
C31_Witness ==
    /\ last.op = "Unlock" /\ last.pre.exists /\ last.Released
    /\ Len(last.pre.shared_locks) = 3
    /\ Len(shared_locks) = 2
    /\ shared_locks[1].expires_at # shared_locks[2].expires_at
\* Unlock by a holder while another holder's exclusive lease is valid.
C31_WitnessLate ==
    /\ last.op = "Unlock" /\ last.pre.exists
    /\ XValidIn(last.pre, now)
    /\ last.pre.xlock_id.String # last.id
    /\ xgrant[last.pre.xlock_id.String].Valid

\* ---------------------------------------------------------------- C32
\* C32: whatever the interleaving of the claimants' TrySLock and Unlock
\* calls, every claimant whose TrySLock returned acquired=true, whose lease
\* has not expired and who has not called Unlock since has exactly one entry
\* in the stored shared set, and that entry carries its lease.
C32_EntriesOf(id) == {i \in 1 .. Len(shared_locks) : shared_locks[i].lock_id = id}
C32_NoLostSharedClaims ==
    \A id \in DOMAIN sgrant :
        sgrant[id].Valid
            => /\ Cardinality(C32_EntriesOf(id)) = 1
               /\ \A i \in C32_EntriesOf(id) :
                      shared_locks[i].expires_at = sgrant[id].Time
\* A TrySLock that started before the other claimants' calls committed has
\* acquired on the row they wrote, while the other holder is in a call of
\* its own: all three claimants have their lease.
C32_Witness ==
    /\ OnRow("TrySLock") /\ last.Acquired
    /\ \A id \in DOMAIN sgrant : sgrant[id].Valid
    /\ \E h \in Holders : h # last.id /\ pc[h] = "s_select"
    /\ Len(last.pre.shared_locks) = 2
\* An Unlock committed while the other holder, which has a lease, is in a
\* TrySLock call.
C32_WitnessUnlock ==
    /\ last.op = "Unlock" /\ last.Released
    /\ \E h \in Holders : h # last.id /\ pc[h] = "s_select" /\ sgrant[h].Valid
    /\ sgrant["c"].Valid

\* ---------------------------------------------------------------- C33
\* C33: whenever TryXLock or TrySLock returns acquired=true, whatever
\* ttlSeconds was passed, the claim stored for the caller is valid when the
\* call commits: its stored expiry is strictly later than the current time.
C33_GrantedIsValid ==
    /\ (last.op = "TryXLock" /\ last.Acquired)
           => /\ xlock_id = SomeString(last.id)
              /\ x_expires_at.Valid /\ x_expires_at.Time > now
    /\ (last.op = "TrySLock" /\ last.Acquired)
           => \E i \in 1 .. Len(shared_locks) :
                  /\ shared_locks[i].lock_id = last.id
                  /\ shared_locks[i].expires_at > now

\* ---------------------------------------------------------------- C34
\* C34: when TryXLock or TrySLock returns acquired=true, on the row-creation
\* path or on an existing row, the ExpiresAt it returns is the expiry stored
\* in the row for the caller's claim; an XLock or SLock that returns success
\* returns that same stored expiry; a try-operation that returns
\* acquired=false returns the zero ExpiresAt.
C34_StoredFor(op, id, expiresAt, n) ==
    IF op = "TryXLock"
    THEN /\ xlock_id = SomeString(id)
         /\ x_expires_at = SomeTime(expiresAt) /\ n = 0
    ELSE /\ \E i \in 1 .. Len(shared_locks) : shared_locks[i].lock_id = id
         /\ \A i \in 1 .. Len(shared_locks) :
                shared_locks[i].lock_id = id
                    => shared_locks[i].expires_at = expiresAt
C34_ReturnedExpiryIsStored ==
    /\ (last.op \in {"TryXLock", "TrySLock"} /\ last.Acquired)
           => C34_StoredFor(last.op, last.id, last.ExpiresAt, last.nanos)
    /\ (last.op \in {"TryXLock", "TrySLock"} /\ ~last.Acquired)
           => last.ExpiresAt = ZeroTime
    /\ \A h \in Holders :
           (/\ blocking[h].at = "returned" /\ blocking[h].result = "ok"
            /\ last.op = TryOf(blocking[h].op) /\ last.id = h)
               => C34_StoredFor(last.op, h, blocking[h].ExpiresAt, last.nanos)
    /\ \A h \in Holders :
           blocking[h].result # "ok" => blocking[h].ExpiresAt = ZeroTime
\* What holds instead: the stored exclusive expiry is the returned ExpiresAt
\* rounded to the resolution of the column, so the two differ by less than
\* one unit; the rest of C34 holds as stated.
C34_StoredUpToResolution ==
    /\ (last.op = "TryXLock" /\ last.Acquired)
           => /\ xlock_id = SomeString(last.id)
              /\ x_expires_at = SomeTime(Timestamptz(last.ExpiresAt, last.nanos))
              /\ x_expires_at.Time - last.ExpiresAt \in {0, 1}
    /\ (last.op = "TrySLock" /\ last.Acquired)
           => C34_StoredFor(last.op, last.id, last.ExpiresAt, last.nanos)
    /\ (last.op \in {"TryXLock", "TrySLock"} /\ ~last.Acquired)
           => last.ExpiresAt = ZeroTime
    /\ \A h \in Holders :
           (/\ blocking[h].at = "returned" /\ blocking[h].result = "ok"
            /\ last.op = TryOf(blocking[h].op) /\ last.id = h)
               => blocking[h].ExpiresAt = last.ExpiresAt
    /\ \A h \in Holders :
           blocking[h].result # "ok" => blocking[h].ExpiresAt = ZeroTime
\* A blocking call has just returned success from an attempt on an existing
\* row, made after a wait.
C34_Witness ==
    \E h \in Holders :
        /\ blocking[h].at = "returned" /\ blocking[h].result = "ok"
        /\ blocking[h].retried
        /\ last.op = TryOf(blocking[h].op) /\ last.id = h /\ ~last.created
        /\ blocking[h].ExpiresAt > now
\* A try-operation has just created the row.
C34_WitnessCreated ==
    /\ last.op \in {"TryXLock", "TrySLock"} /\ last.Acquired /\ last.created
    /\ last.ExpiresAt > now

====
